---------------------------- MODULE Spec2Model ----------------------------
(***************************************************************************)
(* A model of src/rss_bot.py, class MultiChannelCyberSecBot: the keyword   *)
(* classifier and channel router (pure functions over text), the item      *)
(* identifier, the notifier send_to_discord, the feed processor            *)
(* check_single_feed and the orchestrator run.                             *)
(*                                                                         *)
(* Text is a sequence of one-character strings, so that lower(), slicing,  *)
(* concatenation and the `in` substring test are computed, not assumed.    *)
(***************************************************************************)
EXTENDS Integers, Sequences, FiniteSets, TLC

VARIABLES
    webhooks,       \* self.webhooks: the channels that have a webhook URL
    posted_items,   \* self.posted_items: the item ids already posted
    pc,             \* position of run(): "fetch", "loop", "sleep", "done"
    catIdx,         \* run(): index of the category in self.feeds
    urlIdx,         \* run(): index of the feed URL in that category's list
    n,              \* check_single_feed: len(feed.entries)
    i,              \* check_single_feed: entries of the slice already consumed
    new_items,      \* check_single_feed: the local counter new_items
    calls,          \* history: the (category, url) arguments of each call
    last,           \* history: what the latest step of check_single_feed did
    successes,      \* history: send_to_discord returns of True, this call
    delivered,      \* history: the pool entries that were posted (204)
    args,           \* text functions: the (title, description) under test
    ret             \* text functions: the latest call and its result

vars == << webhooks, posted_items, pc, catIdx, urlIdx, n, i, new_items,
           calls, last, successes, delivered, args, ret >>

runVars == << webhooks, posted_items, pc, catIdx, urlIdx, n, i, new_items,
              calls, last, successes, delivered >>

textVars == << args, ret >>

-----------------------------------------------------------------------------
(* Bounds of the model.                                                     *)

\* len(feed.entries) ranges over 0..MaxFeedLen (more than max_items)
MaxFeedLen == 6

\* datetime.now() reads 0..ClockSpan seconds after the run's start
ClockSpan == 1

\* a title under test is at most this many fragments long
MaxTitleFrags == 2

\* a description under test is at most this many fragments long
MaxDescFrags == 1

-----------------------------------------------------------------------------
(* Text.                                                                    *)

UpperCase ==
    <<"A","B","C","D","E","F","G","H","I","J","K","L","M","N","O","P","Q","R","S","T","U","V","W","X","Y","Z">>

LowerCase ==
    <<"a","b","c","d","e","f","g","h","i","j","k","l","m","n","o","p","q","r","s","t","u","v","w","x","y","z">>

Digits == <<"0","1","2","3","4","5","6","7","8","9">>

\* The other characters of the texts used here, with their code points.
Punctuation ==
    << <<" ", 32>>, <<"-", 45>>, <<".", 46>>, <<"/", 47>>, <<":", 58>> >>

\* index of c in the sequence s, 0 when absent
IndexIn(c, s) ==
    IF \E k \in 1..Len(s) : s[k] = c
    THEN CHOOSE k \in 1..Len(s) : s[k] = c
    ELSE 0

\* ord(c) for the ASCII characters above
CodePoint(c) ==
    IF IndexIn(c, UpperCase) > 0 THEN 64 + IndexIn(c, UpperCase)
    ELSE IF IndexIn(c, LowerCase) > 0 THEN 96 + IndexIn(c, LowerCase)
    ELSE IF IndexIn(c, Digits) > 0 THEN 47 + IndexIn(c, Digits)
    ELSE (CHOOSE p \in { Punctuation[k] : k \in 1..Len(Punctuation) } : p[1] = c)[2]

\* str.lower() on one character.
LowerChar(c) ==
    IF IndexIn(c, UpperCase) > 0 THEN LowerCase[IndexIn(c, UpperCase)] ELSE c

\* str.lower()
Lower(text) == [k \in 1..Len(text) |-> LowerChar(text[k])]

\* The positions at which keyword starts in text (what text.count(keyword)
\* counts, when the occurrences do not overlap).
Occurrences(keyword, text) ==
    { k \in 1..(Len(text) - Len(keyword) + 1) :
        SubSeq(text, k, k + Len(keyword) - 1) = keyword }

\* Python's test (keyword in text) on strings.
Contains(keyword, text) ==
    \/ Len(keyword) = 0
    \/ \E k \in 1..(Len(text) - Len(keyword) + 1) :
          /\ text[k] = keyword[1]
          /\ SubSeq(text, k, k + Len(keyword) - 1) = keyword

\* str.encode(): the UTF-8 bytes of an ASCII text.
Encode(text) == [k \in 1..Len(text) |-> CodePoint(text[k])]

\* hashlib.md5(data).hexdigest().  The digest is a function of the bytes;
\* on the short byte strings of this model MD5 has no collision, so the
\* digest is represented by the byte string it was computed from.
Md5Hex(data) == [md5 |-> data]

-----------------------------------------------------------------------------
(* __init__: the keyword lists and the feed table.                          *)

beginner_keywords ==
    << <<"b","e","g","i","n","n","e","r">>,
       <<"i","n","t","r","o">>,
       <<"i","n","t","r","o","d","u","c","t","i","o","n">>,
       <<"b","a","s","i","c","s">>,
       <<"f","u","n","d","a","m","e","n","t","a","l","s">>,
       <<"g","e","t","t","i","n","g"," ","s","t","a","r","t","e","d">>,
       <<"t","u","t","o","r","i","a","l">>,
       <<"g","u","i","d","e">>,
       <<"1","0","1">>,
       <<"b","a","s","i","c">> >>

intermediate_keywords ==
    << <<"a","d","v","a","n","c","e","d">>,
       <<"i","n","t","e","r","m","e","d","i","a","t","e">>,
       <<"d","e","e","p"," ","d","i","v","e">>,
       <<"e","x","p","l","o","i","t","a","t","i","o","n">>,
       <<"b","y","p","a","s","s">>,
       <<"a","n","a","l","y","s","i","s">>,
       <<"r","e","v","e","r","s","e"," ","e","n","g","i","n","e","e","r","i","n","g">>,
       <<"a","d","v","a","n","c","e","d"," ","t","e","c","h","n","i","q","u","e","s">> >>

\* The literal list of get_appropriate_channel's first test.
writeup_keywords ==
    << <<"w","r","i","t","e","u","p">>,
       <<"w","r","i","t","e","-","u","p">>,
       <<"w","a","l","k","t","h","r","o","u","g","h">>,
       <<"s","o","l","u","t","i","o","n">> >>

\* The literal list of get_appropriate_channel's second test.
ctf_keywords ==
    << <<"c","t","f">>,
       <<"c","a","p","t","u","r","e"," ","t","h","e"," ","f","l","a","g">>,
       <<"c","o","m","p","e","t","i","t","i","o","n">>,
       <<"c","h","a","l","l","e","n","g","e">> >>

\* The keys of the webhooks dictionary, before unset ones are removed.
Channels ==
    { "cryptography", "mobile_security", "web_security", "digital_forensics",
      "osint", "matlab", "writeups", "ctf" }

\* self.feeds, in insertion order.
feeds ==
    << [category |-> "cryptography",
        urls |-> << "https://blog.cryptographyengineering.com/feed/",
                    "https://eprint.iacr.org/rss/rss.xml" >>],
       [category |-> "mobile_security",
        urls |-> << "https://blog.zimperium.com/feed/",
                    "https://www.nowsecure.com/blog/feed/" >>],
       [category |-> "web_security",
        urls |-> << "https://portswigger.net/blog/rss",
                    "https://blog.detectify.com/feed/" >>],
       [category |-> "digital_forensics",
        urls |-> << "https://forensicfocus.com/feed/" >>],
       [category |-> "osint",
        urls |-> << "https://www.bellingcat.com/feed/",
                    "https://inteltechniques.com/blog/feed/" >>],
       [category |-> "writeups",
        urls |-> << "https://0x00sec.org/latest.rss",
                    "https://www.exploit-db.com/rss.xml" >>],
       [category |-> "ctf",
        urls |-> << "https://ctftime.org/event/list/upcoming/rss/" >>] >>

-----------------------------------------------------------------------------
(* classify_difficulty and get_appropriate_channel.                         *)

\* Variant: every occurrence of a keyword counts (text.count(keyword)).
KeywordScore_PerOccurrence(keywords, text) ==
    LET hits == { <<k, at>> \in (1..Len(keywords)) \X (1..Len(text)) :
                    at \in Occurrences(keywords[k], text) }
    IN  Cardinality(hits)

\* sum(1 for keyword in keywords if keyword in text)
KeywordScore(keywords, text) ==
    Cardinality({ k \in 1..Len(keywords) : Contains(keywords[k], text) })

\* text = f"{title} {description}".lower()
ClassifierText(title, description) == Lower(title \o <<" ">> \o description)

classify_difficulty(title, description) ==
    LET text == ClassifierText(title, description)
        beginner_score == KeywordScore(beginner_keywords, text)
        intermediate_score == KeywordScore(intermediate_keywords, text)
    IN  IF beginner_score > intermediate_score THEN "beginner"
        ELSE IF intermediate_score > 0 THEN "intermediate"
        ELSE "general"

\* any(keyword in title.lower() or keyword in description.lower()
\*     for keyword in keywords)
AnyKeyword(keywords, title, description) ==
    LET title_lower == Lower(title)
        description_lower == Lower(description)
    IN  \E k \in 1..Len(keywords) :
            \/ Contains(keywords[k], title_lower)
            \/ Contains(keywords[k], description_lower)

\* Variant: the CTF test comes before the writeup test.
get_appropriate_channel_CtfFirst(category, title, description) ==
    IF AnyKeyword(ctf_keywords, title, description) THEN "ctf"
    ELSE IF AnyKeyword(writeup_keywords, title, description) THEN "writeups"
    ELSE category

get_appropriate_channel(category, title, description) ==
    LET difficulty == classify_difficulty(title, description)
    IN  IF AnyKeyword(writeup_keywords, title, description) THEN "writeups"
        ELSE IF AnyKeyword(ctf_keywords, title, description) THEN "ctf"
        ELSE category

\* generate_item_id
generate_item_id(title, link) == Md5Hex(Encode(title \o link))

-----------------------------------------------------------------------------
(* The text functions on bounded inputs.  A title or description is a      *)
(* concatenation of fragments; the fragments hold keywords of each list in *)
(* several cases, a keyword that is a prefix of another ("basic" followed  *)
(* by "s"), the two halves of a keyword with a space, and neutral text.    *)

Fragments ==
    { <<"C","T","F">>,
      <<"W","r","i","t","e","u","p">>,
      <<"b","a","s","i","c">>,
      <<"s">>,
      <<"b","y","p","a","s","s">>,
      <<"d","e","e","p">>,
      <<"d","i","v","e">>,
      <<"O","p","e","n","S","S","L">> }

RECURSIVE TextsUpTo(_)
TextsUpTo(k) ==
    IF k = 0 THEN { << >> }
    ELSE LET shorter == TextsUpTo(k - 1)
         IN  shorter \cup { t \o f : t \in shorter, f \in Fragments }

Titles == TextsUpTo(MaxTitleFrags)

Descriptions == TextsUpTo(MaxDescFrags)

NoCall == [fn |-> "none", category |-> "none", value |-> "none"]

NoArgs == [title |-> << >>, description |-> << >>]

\* The state of a run, before run() starts.
RunIdle ==
    /\ webhooks = {}
    /\ posted_items = {}
    /\ pc = "idle"
    /\ catIdx = 1
    /\ urlIdx = 1
    /\ n = 0
    /\ i = 0
    /\ new_items = 0
    /\ calls = << >>
    /\ last = [outcome |-> "none"]
    /\ successes = 0
    /\ delivered = {}

InitText ==
    /\ args \in [title : Titles, description : Descriptions]
    /\ ret = NoCall
    /\ RunIdle

CallClassify ==
    /\ ret = NoCall
    /\ ret' = [fn |-> "classify_difficulty", category |-> "none",
               value |-> classify_difficulty(args.title, args.description)]
    /\ UNCHANGED << args, runVars >>

CallRoute ==
    /\ ret = NoCall
    /\ \E category \in Channels :
          ret' = [fn |-> "get_appropriate_channel", category |-> category,
                  value |-> get_appropriate_channel(category, args.title,
                                                    args.description)]
    /\ UNCHANGED << args, runVars >>

NextText == CallClassify \/ CallRoute

SpecText == InitText /\ [][NextText]_vars

-----------------------------------------------------------------------------
(* The collaborators of a run: the environment, the feed source, the       *)
(* clock and the webhook endpoint.                                         *)

\* os.getenv for the eight webhook variables: each is a URL, the empty
\* string or unset (None).
Environments ==
    { [c \in Channels |-> "url"],
      [c \in Channels |-> IF c = "writeups" THEN "empty"
                           ELSE IF c = "ctf" THEN "unset" ELSE "url"],
      [c \in Channels |-> IF c \in {"cryptography", "osint"} THEN "unset"
                           ELSE "url"],
      [c \in Channels |-> "unset"] }

\* self.webhooks = {k: v for k, v in self.webhooks.items() if v}
ConfiguredChannels(env) == { c \in Channels : env[c] = "url" }

max_items == 5

LookbackHours == 48

\* timedelta(hours=48), in seconds
Lookback == LookbackHours * 60 * 60

RateLimit == 2

NoContent == 204

\* entry.published_parsed: no such attribute, None, a value datetime()
\* rejects, or a time (seconds, relative to the start of the run).
NoPublished == [kind |-> "absent", at |-> 0]

NonePublished == [kind |-> "none", at |-> 0]

BadPublished == [kind |-> "malformed", at |-> 0]

PublishedAt(t) == [kind |-> "time", at |-> t]

\* The entries a feed may hold.  e1 and e2 are different articles whose
\* title and link concatenate to the same text; e3 is exactly 48 hours old
\* at the start of the run and e4 one second younger; e6 has no title.
Pool ==
    [ e1 |-> [has_title |-> TRUE, title |-> <<"C","V","E","-","1">>,
              has_link |-> TRUE, link |-> <<"2">>,
              has_summary |-> FALSE, summary |-> << >>,
              published_parsed |-> NoPublished],
      e2 |-> [has_title |-> TRUE, title |-> <<"C","V","E","-">>,
              has_link |-> TRUE, link |-> <<"1","2">>,
              has_summary |-> TRUE, summary |-> << >>,
              published_parsed |-> NonePublished],
      e3 |-> [has_title |-> TRUE,
              title |-> <<"C","T","F"," ","W","r","i","t","e","u","p">>,
              has_link |-> TRUE, link |-> <<"/","w">>,
              has_summary |-> TRUE, summary |-> << >>,
              published_parsed |-> PublishedAt(0 - Lookback)],
      e4 |-> [has_title |-> TRUE, title |-> <<"I","n","t","r","o">>,
              has_link |-> TRUE, link |-> <<"/","c">>,
              has_summary |-> TRUE,
              summary |-> <<"a"," ","c","t","f"," ","C","h","a","l","l","e","n","g","e">>,
              published_parsed |-> PublishedAt(1 - Lookback)],
      e5 |-> [has_title |-> TRUE, title |-> <<"G","u","i","d","e">>,
              has_link |-> TRUE, link |-> <<"/","g">>,
              has_summary |-> TRUE,
              summary |-> <<"s","o","l","u","t","i","o","n">>,
              published_parsed |-> BadPublished],
      e6 |-> [has_title |-> FALSE, title |-> << >>,
              has_link |-> TRUE, link |-> <<"/","n">>,
              has_summary |-> TRUE, summary |-> << >>,
              published_parsed |-> NoPublished] ]

PoolNames == DOMAIN Pool

\* datetime.now(), in seconds after the start of the run
Clock == 0..ClockSpan

NoClock == 0 - 1

\* What requests.post does: a response with a status code, or an exception
\* (a connection error, the 10 second timeout).
StatusCodes == { NoContent, 200 }

Responses ==
    { [raised |-> FALSE, status_code |-> c] : c \in StatusCodes }
        \cup { [raised |-> TRUE, status_code |-> 0] }

NoResponse == [raised |-> FALSE, status_code |-> 0]

-----------------------------------------------------------------------------
(* send_to_discord and the steps of check_single_feed.                      *)

\* Variant: any 2xx status counts as success.
send_to_discord_Any2xx(channel, title, description, url, category, response) ==
    IF channel \notin webhooks
    THEN [ok |-> FALSE, requested |-> FALSE, response |-> NoResponse]
    ELSE IF response.raised
    THEN [ok |-> FALSE, requested |-> TRUE, response |-> response]
    ELSE [ok |-> response.status_code >= 200 /\ response.status_code < 300,
          requested |-> TRUE, response |-> response]

\* Variant: a channel without a webhook falls back to the source category's.
send_to_discord_Fallback(channel, title, description, url, category, response) ==
    IF channel \notin webhooks /\ category \notin webhooks
    THEN [ok |-> FALSE, requested |-> FALSE, response |-> NoResponse]
    ELSE IF response.raised
    THEN [ok |-> FALSE, requested |-> TRUE, response |-> response]
    ELSE [ok |-> response.status_code = NoContent, requested |-> TRUE,
          response |-> response]

\* send_to_discord: whether requests.post was called, what it did, and the
\* value returned.
send_to_discord(channel, title, description, url, category, response) ==
    IF channel \notin webhooks
    THEN [ok |-> FALSE, requested |-> FALSE, response |-> NoResponse]
    ELSE IF response.raised
    THEN [ok |-> FALSE, requested |-> TRUE, response |-> response]
    ELSE [ok |-> response.status_code = NoContent, requested |-> TRUE,
          response |-> response]

\* Variant: the duplicate test is lost.
AlreadyPosted_Never(item_id) == FALSE

\* if item_id in self.posted_items
AlreadyPosted(item_id) == item_id \in posted_items

\* Variant: an entry exactly 48 hours old is skipped too.
TooOld_Inclusive(entry, now) ==
    IF entry.published_parsed.kind = "time"
    THEN entry.published_parsed.at <= now - Lookback
    ELSE FALSE

\* The recency test: True when the entry is skipped as too old.  A missing
\* or None published_parsed skips the test; a datetime() failure is
\* swallowed by the bare except.
TooOld(entry, now) ==
    IF entry.published_parsed.kind = "time"
    THEN entry.published_parsed.at < now - Lookback
    ELSE FALSE

\* Variant: the loop runs over all of feed.entries.
SliceLen_Unsliced == n

\* len(feed.entries[:max_items])
SliceLen == IF n < max_items THEN n ELSE max_items

\* Variant: the loop breaks one success late.
RateLimitReached_Late(count) == count > RateLimit

\* if new_items >= 2
RateLimitReached(count) == count >= RateLimit

\* Variant: no except clause; the exception leaves run().
AfterException_Propagates == "aborted"

\* The except clause of check_single_feed: log, and return normally.
AfterException == "sleep"

\* getattr(entry, 'summary', '')
Summary(entry) == IF entry.has_summary THEN entry.summary ELSE << >>

\* item_id = self.generate_item_id(entry.title, entry.link), for each
\* entry of the pool that has both attributes
ItemId ==
    [e \in { x \in PoolNames : Pool[x].has_title /\ Pool[x].has_link } |->
        generate_item_id(Pool[e].title, Pool[e].link)]

\* The categories of the feed table.
FeedCategories == { feeds[c].category : c \in 1..Len(feeds) }

\* target_channel = self.get_appropriate_channel(base_category, entry.title,
\* getattr(entry, 'summary', '')), for each entry and each base category
TargetChannel ==
    [e \in DOMAIN ItemId |->
        [c \in FeedCategories |->
            get_appropriate_channel(c, Pool[e].title, Summary(Pool[e]))]]

Event(outcome, pos, e, now, channel, requested, response) ==
    [outcome |-> outcome, pos |-> pos, entry |-> e, now |-> now,
     channel |-> channel, requested |-> requested, response |-> response]

NoEvent == Event("none", 0, "none", NoClock, "none", FALSE, NoResponse)

Init ==
    /\ \E env \in Environments : webhooks = ConfiguredChannels(env)
    /\ posted_items = {}
    /\ pc = "fetch"
    /\ catIdx = 1
    /\ urlIdx = 1
    /\ n = 0
    /\ i = 0
    /\ new_items = 0
    /\ calls = << >>
    /\ last = NoEvent
    /\ successes = 0
    /\ delivered = {}
    /\ args = NoArgs
    /\ ret = NoCall

\* run() calls check_single_feed, which fetches the feed: feedparser.parse
\* raises, or returns MaxFeedLen entries or fewer.
Fetch ==
    /\ pc = "fetch"
    /\ calls' = Append(calls, [category |-> feeds[catIdx].category,
                               url |-> feeds[catIdx].urls[urlIdx]])
    /\ successes' = 0
    /\ new_items' = 0
    /\ i' = 0
    /\ \E fetched \in {"raises"} \cup { "entries" } :
         IF fetched = "raises"
         THEN /\ pc' = AfterException
              /\ n' = 0
              /\ last' = [NoEvent EXCEPT !.outcome = "fetch_raised"]
         ELSE \E len \in 0..MaxFeedLen :
              /\ n' = len
              /\ pc' = IF len = 0 THEN "sleep" ELSE "loop"
              /\ last' = [NoEvent EXCEPT !.outcome =
                            IF len = 0 THEN "no_entries" ELSE "fetched"]
    /\ UNCHANGED << webhooks, posted_items, catIdx, urlIdx, delivered, textVars >>

\* One iteration of the for loop, on the entry the feed holds at position
\* i + 1, with the clock reading and the endpoint's answer of this moment.
Iteration(e, now, response) ==
    LET entry == Pool[e]
        pos == i + 1
    IN
    IF ~entry.has_title \/ ~entry.has_link
    THEN \* entry.title raises AttributeError: the outer except ends the call
         /\ pc' = AfterException
         /\ i' = pos
         /\ last' = Event("entry_raised", pos, e, NoClock, "none", FALSE, NoResponse)
         /\ UNCHANGED << posted_items, new_items, successes, delivered >>
    ELSE
    LET item_id == ItemId[e]
        read == IF entry.published_parsed.kind = "time" THEN now ELSE NoClock
    IN
    IF AlreadyPosted(item_id)
    THEN /\ pc' = "loop"
         /\ i' = pos
         /\ last' = Event("already_posted", pos, e, NoClock, "none", FALSE, NoResponse)
         /\ UNCHANGED << posted_items, new_items, successes, delivered >>
    ELSE IF TooOld(entry, now)
    THEN /\ pc' = "loop"
         /\ i' = pos
         /\ last' = Event("too_old", pos, e, read, "none", FALSE, NoResponse)
         /\ UNCHANGED << posted_items, new_items, successes, delivered >>
    ELSE
    LET target_channel == TargetChannel[e][feeds[catIdx].category]
        sent == send_to_discord(target_channel, entry.title, Summary(entry),
                                entry.link, feeds[catIdx].category, response)
        count == IF sent.ok THEN new_items + 1 ELSE new_items
    IN   /\ posted_items' = IF sent.ok THEN posted_items \cup {item_id}
                                       ELSE posted_items
         /\ new_items' = count
         /\ pc' = IF RateLimitReached(count) THEN "sleep" ELSE "loop"
         /\ i' = pos
         /\ successes' = IF sent.ok THEN successes + 1 ELSE successes
         /\ delivered' = IF sent.ok THEN delivered \cup {e} ELSE delivered
         /\ last' = Event(IF sent.ok THEN "sent" ELSE "not_sent", pos, e, read,
                          target_channel, sent.requested, sent.response)

ProcessEntry ==
    /\ pc = "loop"
    /\ i < SliceLen
    /\ \E e \in PoolNames, now \in Clock, response \in Responses :
          Iteration(e, now, response)
    /\ UNCHANGED << webhooks, catIdx, urlIdx, n, calls, textVars >>

\* The for loop has consumed its slice: check_single_feed returns.
LoopExit ==
    /\ pc = "loop"
    /\ i >= SliceLen
    /\ pc' = "sleep"
    /\ UNCHANGED << webhooks, posted_items, catIdx, urlIdx, n, i, new_items,
                    calls, last, successes, delivered, textVars >>

\* run(): time.sleep(2), then the next feed URL, the next category, or the
\* end of the run.  The locals of the call that returned are gone.
Sleep ==
    /\ pc = "sleep"
    /\ IF urlIdx < Len(feeds[catIdx].urls)
       THEN /\ urlIdx' = urlIdx + 1
            /\ catIdx' = catIdx
            /\ pc' = "fetch"
       ELSE IF catIdx < Len(feeds)
       THEN /\ urlIdx' = 1
            /\ catIdx' = catIdx + 1
            /\ pc' = "fetch"
       ELSE /\ pc' = "done"
            /\ UNCHANGED << catIdx, urlIdx >>
    /\ n' = 0
    /\ i' = 0
    /\ new_items' = 0
    /\ successes' = 0
    /\ last' = NoEvent
    /\ UNCHANGED << webhooks, posted_items, calls, delivered, textVars >>

Next == Fetch \/ ProcessEntry \/ LoopExit \/ Sleep

Spec == Init /\ [][Next]_vars

\* run() is a sequential program: it takes its next step whenever it has one.
FairSpec == Spec /\ WF_vars(Next)

-----------------------------------------------------------------------------
(* Properties.                                                              *)

\* A step that is one iteration of check_single_feed's loop.
IterationStep == pc = "loop" /\ i' = i + 1

\* An iteration that called send_to_discord.
AttemptStep == IterationStep /\ last'.outcome \in {"sent", "not_sent"}

\* The (title, link) pair of a pool entry.
TitleAndLink(e) == << Pool[e].title, Pool[e].link >>

\* self.feeds as the list of its (category, url) pairs.
RECURSIVE FeedPairsFrom(_, _)
FeedPairsFrom(c, u) ==
    IF c > Len(feeds) THEN << >>
    ELSE IF u > Len(feeds[c].urls) THEN FeedPairsFrom(c + 1, 1)
    ELSE << [category |-> feeds[c].category, url |-> feeds[c].urls[u]] >>
            \o FeedPairsFrom(c, u + 1)

FeedPairs == FeedPairsFrom(1, 1)

\* C1: in one call of check_single_feed, send_to_discord returns True at
\* most 2 times, whatever the feed holds and whatever the endpoint answers.
C1_AtMostTwoSuccessesPerCall == successes <= 2

\* The cap was reached before the slice was consumed.
C1_Witness == successes = 2 /\ pc = "sleep" /\ i < SliceLen

\* C2: send_to_discord is never called for an entry whose id is in
\* posted_items, and a successful delivery is never of an id that an
\* earlier successful delivery of this run had.
C2_NoDeliveryOfPostedId ==
    [][ AttemptStep =>
          /\ ItemId[last'.entry] \notin posted_items
          /\ (last'.outcome = "sent" =>
                \A d \in delivered : ItemId[d] # ItemId[last'.entry]) ]_vars

\* An entry that was posted is met again and skipped.
C2_Witness == last.outcome = "already_posted" /\ last.entry \in delivered

\* C3: posted_items and the success counter change only in an iteration
\* whose request was answered with status 204, which adds the entry's id and
\* adds one; after any other answer, an exception or a timeout both are
\* unchanged and the id is still not in posted_items; posted_items never
\* loses an id.
C3_PostedOnlyOn204 ==
    [][ /\ posted_items \subseteq posted_items'
        /\ (posted_items' # posted_items \/ new_items' > new_items) =>
              /\ AttemptStep
              /\ last'.requested
              /\ ~last'.response.raised
              /\ last'.response.status_code = 204
        /\ (AttemptStep /\ last'.requested /\ ~last'.response.raised
                /\ last'.response.status_code = 204) =>
              /\ posted_items' = posted_items \cup {ItemId[last'.entry]}
              /\ new_items' = new_items + 1
        /\ (AttemptStep /\ (last'.response.raised
                              \/ last'.response.status_code # 204)) =>
              /\ posted_items' = posted_items
              /\ new_items' = new_items
              /\ ItemId[last'.entry] \notin posted_items' ]_vars

\* A request answered with a status other than 204 left the id out.
C3_Witness ==
    /\ last.outcome = "not_sent"
    /\ last.requested
    /\ ~last.response.raised
    /\ last.response.status_code = 200
    /\ ItemId[last.entry] \notin posted_items
    /\ pc = "loop"

\* C4: run() calls check_single_feed once for each (category, url) pair of
\* the feed table, in table order, whatever fails inside a call; it never
\* stops before the table is exhausted, and it terminates.
C4_EveryFeedOnceInOrder ==
    /\ [](/\ Len(calls) <= Len(FeedPairs)
          /\ calls = SubSeq(FeedPairs, 1, Len(calls))
          /\ (pc = "done" => calls = FeedPairs)
          /\ (pc # "done" => ENABLED Next))
    /\ <>(pc = "done")

\* An entry without a title ended a call, with feeds still to come.
C4_Witness ==
    /\ last.outcome = "entry_raised"
    /\ pc = "sleep"
    /\ Len(calls) < Len(FeedPairs)

\* C5: an entry is skipped as a duplicate only if an entry with the same
\* (title, link) pair was posted: distinct pairs never share an id.
C5_DistinctPairsDistinctIds ==
    last.outcome = "already_posted" =>
        \E d \in delivered : TitleAndLink(d) = TitleAndLink(last.entry)

\* Whether title or description holds one of the words, whatever the case.
Mentions(words, title, description) ==
    LET t == Lower(title)
        d == Lower(description)
    IN  \E w \in words : Contains(w, t) \/ Contains(w, d)

WriteupWords ==
    { <<"w","r","i","t","e","u","p">>, <<"w","r","i","t","e","-","u","p">>,
      <<"w","a","l","k","t","h","r","o","u","g","h">>,
      <<"s","o","l","u","t","i","o","n">> }

CtfWords ==
    { <<"c","t","f">>,
      <<"c","a","p","t","u","r","e"," ","t","h","e"," ","f","l","a","g">>,
      <<"c","o","m","p","e","t","i","t","i","o","n">>,
      <<"c","h","a","l","l","e","n","g","e">> }

\* C6: get_appropriate_channel returns 'writeups' when title or description
\* mentions a writeup word (also when a ctf word is there too), else 'ctf'
\* when one mentions a ctf word, else the source category; the difficulty
\* label has no part in it.
C6_RouterFirstMatchWins ==
    ret.fn = "get_appropriate_channel" =>
        /\ ret.value =
             IF Mentions(WriteupWords, args.title, args.description)
             THEN "writeups"
             ELSE IF Mentions(CtfWords, args.title, args.description)
             THEN "ctf"
             ELSE ret.category
        /\ ret.value \in {"writeups", "ctf", ret.category}

\* A text with a ctf word and a writeup word, from another category, of
\* beginner difficulty: routed to writeups.
C6_Witness ==
    /\ ret.fn = "get_appropriate_channel"
    /\ ret.category = "osint"
    /\ Mentions(CtfWords, args.title, args.description)
    /\ Mentions(WriteupWords, args.title, args.description)
    /\ classify_difficulty(args.title, args.description) = "beginner"
    /\ ret.value = "writeups"

\* C7: when the routed channel has no webhook, send_to_discord makes no
\* request and returns False, posted_items and the counter are unchanged and
\* the loop goes on, whether or not the source category has a webhook.
C7_NoWebhookNoRequest ==
    [][ (AttemptStep /\ last'.channel \notin webhooks) =>
          /\ ~last'.requested
          /\ last'.outcome = "not_sent"
          /\ posted_items' = posted_items
          /\ new_items' = new_items
          /\ successes' = successes
          /\ pc' = "loop" ]_vars

\* The routed channel has no webhook while the feed's own category has one.
C7_Witness ==
    /\ last.outcome = "not_sent"
    /\ ~last.requested
    /\ last.channel \notin webhooks
    /\ feeds[catIdx].category \in webhooks
    /\ feeds[catIdx].category # last.channel
    /\ pc = "loop"

\* C8: an entry that is not a duplicate is skipped as too old exactly when
\* its published time is a valid time more than 48 hours before now; with
\* no time, an unusable time, or an age of 48 hours or less it goes on to
\* delivery.  A skipped entry causes no request and changes neither
\* posted_items nor the counter.
C8_RecencyWindow ==
    [][ (IterationStep /\ last'.outcome \in {"too_old", "sent", "not_sent"}) =>
          LET published == Pool[last'.entry].published_parsed
              stale == /\ published.kind = "time"
                       /\ last'.now - published.at > 48 * 3600
          IN  /\ (last'.outcome = "too_old") <=> stale
              /\ stale => /\ ~last'.requested
                          /\ posted_items' = posted_items
                          /\ new_items' = new_items ]_vars

\* An entry published exactly 48 hours before now went on to delivery.
C8_Witness ==
    /\ last.outcome \in {"sent", "not_sent"}
    /\ Pool[last.entry].published_parsed.kind = "time"
    /\ last.now - Pool[last.entry].published_parsed.at = 48 * 3600

\* The number of keywords of the list that occur in the text at least once.
RECURSIVE KeywordsPresent(_, _, _)
KeywordsPresent(keywords, text, k) ==
    IF k > Len(keywords) THEN 0
    ELSE (IF Contains(keywords[k], text) THEN 1 ELSE 0)
            + KeywordsPresent(keywords, text, k + 1)

\* The number of occurrences in the text of the keywords of the list.
RECURSIVE KeywordOccurrences(_, _, _)
KeywordOccurrences(keywords, text, k) ==
    IF k > Len(keywords) THEN 0
    ELSE Cardinality(Occurrences(keywords[k], text))
            + KeywordOccurrences(keywords, text, k + 1)

Label(beginnerCount, intermediateCount) ==
    IF beginnerCount > intermediateCount THEN "beginner"
    ELSE IF intermediateCount > 0 THEN "intermediate"
    ELSE "general"

\* C9, as claimed: the counts are the numbers of substring occurrences of
\* the keywords in the lowercased text.
C9_CountsAreOccurrences ==
    ret.fn = "classify_difficulty" =>
        LET text == Lower(args.title \o <<" ">> \o args.description)
        IN  ret.value = Label(KeywordOccurrences(beginner_keywords, text, 1),
                              KeywordOccurrences(intermediate_keywords, text, 1))

\* C9, amended: the counts are the numbers of keywords of each list that
\* occur at least once in the lowercased title, a space, and description;
\* the result is one of the three labels.
C9_CountsAreKeywordsPresent ==
    ret.fn = "classify_difficulty" =>
        LET text == Lower(args.title \o <<" ">> \o args.description)
        IN  /\ ret.value = Label(KeywordsPresent(beginner_keywords, text, 1),
                                 KeywordsPresent(intermediate_keywords, text, 1))
            /\ ret.value \in {"beginner", "intermediate", "general"}

\* One beginner keyword occurring twice ties with one intermediate keyword.
C9_Witness ==
    /\ ret.fn = "classify_difficulty"
    /\ args.title = <<"b","a","s","i","c","b","a","s","i","c">>
    /\ args.description = <<"b","y","p","a","s","s">>
    /\ ret.value = "intermediate"

\* C10: send_to_discord is called only for entries at positions 1 to 5 of
\* the feed, at increasing positions, and never once two deliveries of this
\* call succeeded; a failed delivery leaves the loop running.
C10_AttemptsWithinSliceInOrder ==
    [][ AttemptStep =>
          /\ last'.pos = i + 1
          /\ last'.pos <= 5
          /\ last'.pos <= n
          /\ last'.pos > last.pos
          /\ successes < 2
          /\ (last'.outcome = "not_sent" => pc' = "loop") ]_vars

\* The feed holds more than 5 entries, the fifth was a failed delivery, fewer
\* than 2 deliveries succeeded, and the call has returned.
C10_Witness ==
    /\ pc = "sleep"
    /\ n > 5
    /\ i = 5
    /\ last.pos = 5
    /\ last.outcome = "not_sent"
    /\ successes < 2

=============================================================================
